---- MODULE Spec2Model ----
(***************************************************************************)
(* Model of scripts/import_sd/workflow.py (class Workflow): the import of  *)
(* an SD card into a raw archive, a jpeg archive and a backup.             *)
(*                                                                         *)
(* Spec      Workflow.run as a state machine, one step per loop iteration  *)
(*           of queue_files and of the copy loop.                          *)
(* SpecList  Workflow.create_filelist called on its own: the walk of       *)
(*           queue_files, then the list file of one destination.          *)
(* SpecPath  the pure functions generate_name / generate_path, applied to  *)
(*           inputs drawn from bounded sets.                               *)
(* SpecCopy  rsync, teracopy, teracopy_from_list and copy_from_list, each   *)
(*           called on its own.                                            *)
(* SpecOrg   Workflow.organize_files called on its own, one step per       *)
(*           staged file.                                                  *)
(* SpecFmt   Workflow.update_format called on its own, one step per file   *)
(*           of the walk.                                                  *)
(*                                                                         *)
(* Strings are sequences of one-character strings, so that lengths,        *)
(* truncation and character replacement are computed as Python does.       *)
(* A Python call either returns a value or raises: results are records     *)
(* [exc, val] with exc = "none" for a normal return.                       *)
(***************************************************************************)
EXTENDS Integers, Sequences, FiniteSets, TLC

VARIABLES
    \* ---- Workflow.run ----
    stage,        \* the stage run is in (or ended in)
    result,       \* "none" while running; "done" = returned True;
                  \* "failed" = returned False; "raised" = left by an exception
    exc,          \* the exception that ended run, "none" otherwise
    dirs,         \* filesystem: root -> "ok" | "readonly" | "missing"
    dry_run,      \* Workflow.dry_run
    operation,    \* the CopyOperation passed to run
    files,        \* the files os.walk finds on the SD card, in walk order
    idx,          \* queue_files: position of the walk in files
    queue,        \* Queue: sequence of [dest, files], in insertion order
    checksums,    \* Queue: indices of files whose checksum was recorded
    logged,       \* indices of files logged as 'Unknown file type'
    k,            \* copy loop: position in queue
    listWritten,  \* destinations whose list file was written
    attempted,    \* destinations for which the external copy was invoked
    failures,     \* destinations whose copy or checksum validation failed
    errors,       \* run's local list `errors` (as the set of destinations)
    declined,     \* the operator answered something other than y
    bucketCreated,\* the 'Import Bucket' directory was created by this run
    validated,    \* the final Validator.validate_checksum_list was called
    \* ---- generate_name / generate_path ----
    gphoto,       \* the Photo (metadata record) given to the functions
    graw,         \* Workflow.raw_path (after the setter normalised it)
    gcalls,       \* number of calls made so far
    gshort,       \* argument `short` of the last generate_name call
    gprops,       \* name of the `properties` argument of that call
    gname,        \* result of the last generate_name call
    gpath,        \* result of the last generate_path call
    \* ---- rsync / teracopy / teracopy_from_list / copy_from_list ----
    cfn,          \* the function called, "none" before the call
    cstatus,      \* "idle" | "running" | "returned" | "raised"
    cret,         \* the value returned (FALSE until the call returns)
    cexc,         \* the exception raised, "none" otherwise
    cexits,       \* one entry per invocation of the external command, in
                  \* order: TRUE for exit status 0, FALSE for a nonzero one
    cchecked,     \* Validator.validate_checksums was called
    clist,        \* the list file exists
    cdry,         \* Workflow.dry_run
    cop,          \* the CopyOperation passed to copy_from_list
    \* ---- organize_files ----
    ostatus,      \* "idle" | "running" | "returned" | "raised"
    oexc,         \* the exception that ended the call, "none" otherwise
    ofiles,       \* the staged files os.walk finds in the bucket, in walk
                  \* order: [photo, content]
    oi,           \* position of the loop in ofiles
    oresults,     \* the dict `results`: index of a staged file ->
                  \* [none, path], none standing for the value None
    oarchive,     \* the files of the archive: set of [path, content]
    omoved,       \* indices of the staged files renamed out of the bucket
    omade,        \* directories of the archive os.makedirs was called for
    odry,         \* Workflow.dry_run
    oraw,         \* Workflow.raw_path
    orawexists,   \* the directory raw_path exists
    obucket,      \* the bucket directory: "ok" | "readonly" | "missing"
    ocached,      \* Workflow._bucket_path was set by an earlier read
    \* ---- update_format ----
    fstatus,      \* "idle" | "running" | "returned" | "raised"
    fexc,         \* the exception that ended the call, "none" otherwise
    fwalk,        \* the files os.walk finds under raw_path, in walk order:
                  \* [dir, name, photo]
    fi,           \* position of the loop in fwalk
    fresults,     \* the dict `results`: index of a file -> [dir, name]
    ffs,          \* the filesystem: set of [dir, name, id], id being the
                  \* index of the file in fwalk, 0 for any other file
    fcwd,         \* the working directory of the process
    fdry,         \* Workflow.dry_run
    frawexists    \* the directory raw_path exists

runVars == <<stage, result, exc, dirs, dry_run, operation, files, idx, queue,
             checksums, logged, k, listWritten, attempted, failures, errors,
             declined, bucketCreated, validated>>
pathVars == <<gphoto, graw, gcalls, gshort, gprops, gname, gpath>>
copyVars == <<cfn, cstatus, cret, cexc, cexits, cchecked, clist, cdry, cop>>
orgVars == <<ostatus, oexc, ofiles, oi, oresults, oarchive, omoved, omade,
             odry, oraw, orawexists, obucket, ocached>>
fmtVars == <<fstatus, fexc, fwalk, fi, fresults, ffs, fcwd, fdry, frawexists>>
vars == <<runVars, pathVars, copyVars, orgVars, fmtVars>>

(***************************************************************************)
(* Bounds                                                                  *)
(***************************************************************************)
MaxFiles == 2        \* files on the SD card
MaxCalls == 2        \* calls of generate_name / generate_path per behaviour

(***************************************************************************)
(* Python values                                                           *)
(***************************************************************************)
Return(v) == [exc |-> "none", val |-> v]
Raise(e)  == [exc |-> e, val |-> <<>>]
NoResult  == [exc |-> "not called", val |-> <<>>]

Rep(c, n) == [i \in 1..n |-> c]

\* s holds sub as a run of consecutive characters
Contains(s, sub) ==
    \E i \in 1..(Len(s) - Len(sub) + 1) : SubSeq(s, i, i + Len(sub) - 1) = sub

EndsWith(s, sub) ==
    Len(s) >= Len(sub) /\ SubSeq(s, Len(s) - Len(sub) + 1, Len(s)) = sub

\* a variant that replaces nothing
Replace_nothing(s, old, new) == s

\* str.replace(old, new) for one-character old and new
Replace(s, old, new) == [i \in 1..Len(s) |-> IF s[i] = old THEN new ELSE s[i]]

\* s[:n] for n >= 0
Prefix(s, n) == SubSeq(s, 1, IF n < Len(s) THEN n ELSE Len(s))

\* a variant in which the default of `properties` is the empty dict
EmptyProperties == [none |-> FALSE, items |-> <<>>]

\* Optional[dict]: None, or a dict given as a function from its keys
NoProperties == [none |-> TRUE, items |-> <<>>]
Dict(items) == [none |-> FALSE, items |-> items]

(***************************************************************************)
(* os.path.normpath (posixpath) and Workflow._normalize_path               *)
(* On Windows ntpath writes the separators as backslashes; the lengths are *)
(* those computed here.                                                    *)
(***************************************************************************)
\* str.split('/'): the components of s between its slashes
split(s) ==
    LET slashes == {i \in 1..Len(s) : s[i] = "/"}
        n == Cardinality(slashes)
        \* position of the j-th slash; 0 and Len(s) + 1 stand for the two ends
        at(j) == IF j = 0 THEN 0
                 ELSE IF j = n + 1 THEN Len(s) + 1
                 ELSE CHOOSE i \in slashes :
                        Cardinality({h \in slashes : h < i}) = j - 1
    IN [j \in 1..(n + 1) |-> SubSeq(s, at(j - 1) + 1, at(j) - 1)]

RECURSIVE NormComps(_, _, _)
\* the loop of normpath over the components
NormComps(comps, new_comps, initial_slashes) ==
    IF comps = <<>> THEN new_comps
    ELSE LET comp == Head(comps)
             n == Len(new_comps)
         IN IF comp = <<>> \/ comp = <<".">>
            THEN NormComps(Tail(comps), new_comps, initial_slashes)
            ELSE IF \/ comp # <<".", ".">>
                    \/ (initial_slashes = 0 /\ n = 0)
                    \/ (n > 0 /\ new_comps[n] = <<".", ".">>)
            THEN NormComps(Tail(comps), Append(new_comps, comp), initial_slashes)
            ELSE IF n > 0
            THEN NormComps(Tail(comps), SubSeq(new_comps, 1, n - 1), initial_slashes)
            ELSE NormComps(Tail(comps), new_comps, initial_slashes)

RECURSIVE JoinSlash(_)
\* '/'.join(comps)
JoinSlash(comps) ==
    IF comps = <<>> THEN <<>>
    ELSE IF Len(comps) = 1 THEN comps[1]
    ELSE comps[1] \o <<"/">> \o JoinSlash(Tail(comps))

normpath(path) ==
    IF path = <<>> THEN <<".">>
    ELSE LET starts(n) == Len(path) >= n /\ \A i \in 1..n : path[i] = "/"
             initial_slashes == IF ~starts(1) THEN 0
                                ELSE IF starts(2) /\ ~starts(3) THEN 2 ELSE 1
             joined == JoinSlash(NormComps(split(path), <<>>, initial_slashes))
             p == Rep("/", initial_slashes) \o joined
         IN IF p = <<>> THEN <<".">> ELSE p

\* os.path.join(os.path.normpath(path), ''): the path with one trailing slash
_normalize_path(path) ==
    LET p == normpath(path)
    IN IF p = <<>> \/ p[Len(p)] = "/" THEN p ELSE p \o <<"/">>

(***************************************************************************)
(* Workflow.generate_name                                                  *)
(***************************************************************************)
\* f"{date:%Y%m%d}", f"{date:%Y}" and f"{date:%Y-%m-%d}"
FormatYmd(date) == date.y \o date.m \o date.d
FormatY(date) == date.y
FormatY_m_d(date) == date.y \o <<"-">> \o date.m \o <<"-">> \o date.d

generate_name(photo, short, properties) ==
    IF properties.none
    THEN Raise("AttributeError")     \* properties.get(...) on None, line 648
    ELSE
    LET get(key, default) ==
            IF key \in DOMAIN properties.items THEN properties.items[key] ELSE default
        props == [num    |-> get("number", photo.number),
                  eb     |-> get("exposure_bias", photo.exposure_bias),
                  ev     |-> get("exposure_value", photo.exposure_value),
                  b      |-> get("brightness", photo.brightness),
                  iso    |-> get("iso", photo.iso),
                  ss     |-> get("ss", photo.ss),
                  lens   |-> get("lens", photo.lens),
                  ext    |-> get("extension", photo.extension),
                  date   |-> get("date", photo.date),
                  camera |-> get("camera", photo.camera)]
        exposure == props.num \o <<"_">> \o props.eb \o <<"E", "B", "_">>
                    \o props.ev \o <<"E", "V", "_">>
                    \o props.b \o <<"B", "_">>
                    \o props.iso \o <<"I", "S", "O", "_">>
                    \o props.ss \o <<"S", "S">>
        date == IF props.date.none THEN Rep("0", 8) ELSE FormatYmd(props.date)
        name == IF short
                THEN exposure
                ELSE date \o <<"_">> \o props.camera \o <<"_">> \o exposure
                     \o <<"_">> \o props.lens
    IN Return(Replace(name, ".", " ") \o <<".">> \o props.ext)

(***************************************************************************)
(* Workflow.generate_path                                                  *)
(***************************************************************************)
PathLimit == 254

generate_path(photo, raw_path) ==
    LET full == generate_name(photo, FALSE, NoProperties)
        buffer == PathLimit - Len(raw_path) - Len(photo.extension) - 4 - 16
        year == IF photo.date.none THEN Rep("0", 4) ELSE FormatY(photo.date)
        date == IF photo.date.none
                THEN <<"0", "0", "0", "0", "-", "0", "0", "-", "0", "0">>
                ELSE FormatY_m_d(photo.date)
        path(filename) == raw_path \o <<"/">> \o year \o <<"/">> \o date
                          \o <<"/">> \o filename
    IN IF full.exc # "none" THEN full
       ELSE IF buffer < 1 THEN Raise("ValueError")
       ELSE IF buffer < Len(full.val)
       THEN LET shortname == generate_name(photo, TRUE, NoProperties)
            IN IF shortname.exc # "none" THEN shortname
               ELSE IF buffer < Len(shortname.val)
               THEN Return(path(Prefix(shortname.val, buffer)
                                \o <<"-", "-", "-", ".">> \o photo.extension))
               ELSE Return(path(shortname.val))
       ELSE Return(path(full.val))

(***************************************************************************)
(* Collaborators that are not part of workflow.py: Validator, Photo, Queue *)
(***************************************************************************)
Roots == {"sd", "raw", "jpg", "backup"}

\* Validator.is_dir / Validator.is_writeable on a directory in a given state
is_dir(state) == state # "missing"
is_writeable(state) == state = "ok"

\* Photo(filepath): the metadata record of a file of the SD card
Photo(f) ==
    [number |-> <<"1", "2", "3", "4">>, exposure_bias |-> <<"-", "2", " ", "7">>, exposure_value |-> <<"1", "0">>,
     brightness |-> <<"8", ".", "2", "7">>, iso |-> <<"8", "0", "0">>, ss |-> <<"2", "5", "0">>,
     lens |-> <<"F", "E", " ", "5", "0", "m", "m", " ", "F", "1", ".", "8">>, camera |-> <<"a", "7", "r", "4">>,
     date |-> [none |-> FALSE, y |-> <<"2", "0", "2", "3">>, m |-> <<"0", "8">>, d |-> <<"0", "5">>],
     extension |-> IF f.type = "raw" THEN <<"a", "r", "w">>
                   ELSE IF f.type = "jpg" THEN <<"j", "p", "g">> ELSE <<"t", "x", "t">>]

\* Queue.append_parts(photo, [root, folder, filename]): file i is appended to
\* the list of destination <<root, folder>>, a new destination going last
append_parts(q, i, root, folder) ==
    LET dest == <<root, folder>>
    IN IF \E j \in 1..Len(q) : q[j].dest = dest
       THEN [j \in 1..Len(q) |->
                IF q[j].dest = dest
                THEN [q[j] EXCEPT !.files = Append(@, i)] ELSE q[j]]
       ELSE Append(q, [dest |-> dest, files |-> <<i>>])

\* how often file i is listed for a destination under root
RECURSIVE CountIn(_, _)
CountIn(list, i) ==
    IF list = <<>> THEN 0
    ELSE (IF Head(list) = i THEN 1 ELSE 0) + CountIn(Tail(list), i)

RECURSIVE Queued(_, _, _)
Queued(q, root, i) ==
    IF q = <<>> THEN 0
    ELSE (IF Head(q).dest[1] = root THEN CountIn(Head(q).files, i) ELSE 0)
         + Queued(Tail(q), root, i)

Destinations(q) == {q[j].dest : j \in 1..Len(q)}

(***************************************************************************)
(* Workflow.run: validating paths                                          *)
(***************************************************************************)
\* all(map(Validator.is_dir, [sd_card.path, raw_path, jpg_path, backup_path]))
all_is_dir(d) == \A r \in {"sd", "raw", "jpg", "backup"} : is_dir(d[r])

\* a variant that forgets the jpeg root
all_is_writeable_without_jpg(d) == \A r \in {"raw", "backup"} : is_writeable(d[r])

\* all(map(Validator.is_writeable, [raw_path, jpg_path, backup_path]))
all_is_writeable(d) == \A r \in {"raw", "jpg", "backup"} : is_writeable(d[r])

ValidatePaths ==
    /\ stage = "validating-paths" /\ result = "none"
    /\ IF ~all_is_dir(dirs) \/ ~all_is_writeable(dirs)
       THEN /\ result' = "failed"                      \* return False
            /\ stage' = stage
       ELSE /\ stage' = "queuing"
            /\ result' = result
    /\ UNCHANGED <<exc, dirs, dry_run, operation, files, idx, queue, checksums,
                   logged, k, listWritten, attempted, failures, errors,
                   declined, bucketCreated, validated, pathVars, copyVars, orgVars, fmtVars>>

(***************************************************************************)
(* Workflow.queue_files, one file of the walk per step                     *)
(***************************************************************************)
\* the walk over the SD card has no file left
walk_finished(i, fs) == i > Len(fs)

QueueFile ==
    /\ stage \in {"queuing", "listing"} /\ result = "none"
    /\ ~walk_finished(idx, files)
    /\ LET f == files[idx]
           photo == Photo(f)
           final_path == generate_path(photo, graw)
           to_backup(q) == append_parts(q, idx, "backup", f.folder)
       IN IF f.type = "raw"
          THEN IF final_path.exc # "none"
               THEN \* generate_path raises: queue_files and run are left
                    /\ result' = "raised"
                    /\ exc' = final_path.exc
                    /\ UNCHANGED <<idx, queue, checksums, logged, bucketCreated>>
               ELSE /\ IF f.archived # "same"
                       THEN \* not os.path.exists(final_path) or not photo.matches(final_path)
                            /\ queue' = to_backup(append_parts(queue, idx, "bucket", f.folder))
                            /\ bucketCreated' = TRUE
                       ELSE /\ queue' = to_backup(queue)
                            /\ bucketCreated' = bucketCreated
                    /\ checksums' = checksums \cup {idx}
                    /\ idx' = idx + 1
                    /\ UNCHANGED <<result, exc, logged>>
          ELSE IF f.type = "jpg"
          THEN /\ queue' = to_backup(append_parts(queue, idx, "jpg", f.folder))
               /\ checksums' = checksums \cup {idx}
               /\ idx' = idx + 1
               /\ UNCHANGED <<result, exc, logged, bucketCreated>>
          ELSE \* logger.warning('Unknown file type'); continue
               /\ logged' = logged \cup {idx}
               /\ idx' = idx + 1
               /\ UNCHANGED <<result, exc, queue, checksums, bucketCreated>>
    /\ UNCHANGED <<stage, dirs, dry_run, operation, files, k, listWritten,
                   attempted, failures, errors, declined, validated, pathVars, copyVars, orgVars, fmtVars>>

\* queue_files returns the queue and run enters its copy loop
QueueReturn ==
    /\ stage = "queuing" /\ result = "none"
    /\ walk_finished(idx, files)
    /\ stage' = "copying"
    /\ k' = 1
    /\ UNCHANGED <<result, exc, dirs, dry_run, operation, files, idx, queue,
                   checksums, logged, listWritten, attempted, failures, errors,
                   declined, bucketCreated, validated, pathVars, copyVars, orgVars, fmtVars>>

(***************************************************************************)
(* Workflow.copy_from_list and what it calls                               *)
(***************************************************************************)
Choices == {"y", "Y", "n"}
lower(choice) == IF choice = "Y" THEN "y" ELSE choice

\* a variant that returns the answer instead of raising (throw_error = False)
ask_user_continue_returns(choice) == Return(lower(choice) = "y")

\* ask_user_continue(message) with throw_error left at its default True
ask_user_continue(choice) ==
    IF lower(choice) = "y" THEN Return(TRUE) ELSE Raise("KeyboardInterrupt")

\* the value of config.MAX_RETRIES
MAX_RETRIES == 3

\* a variant that leaves the loop one attempt early
rsync_loop_finished_early(attempts) == attempts + 1 >= MAX_RETRIES

\* rsync: `for _ in range(MAX_RETRIES)` has no iteration left
rsync_loop_finished(attempts) == attempts >= MAX_RETRIES

\* teracopy: exit_ok is whether teracopy.exe exits with status 0; invoked
\* tells whether the external command was run
teracopy(exit_ok) == [exc |-> "none", val |-> exit_ok, invoked |-> TRUE]

\* a variant that does not look for the list file
teracopy_from_list_unchecked(list_exists, exit_ok) ==
    [exc |-> "none", val |-> exit_ok, invoked |-> TRUE]

\* teracopy_from_list: the list file is looked for first
teracopy_from_list(list_exists, exit_ok) ==
    IF ~list_exists
    THEN [exc |-> "FileNotFoundError", val |-> FALSE, invoked |-> FALSE]
    ELSE [exc |-> "none", val |-> exit_ok, invoked |-> TRUE]

\* a variant that lets a dry run through
dry_run_check_skipped(dry) == "none"

\* copy_from_list: `if self.dry_run: raise NotImplementedError(...)`
dry_run_check(dry) == IF dry THEN "NotImplementedError" ELSE "none"

\* copy_from_list: val is the returned `success`; invoked, checked and asked
\* tell whether the external copy ran, whether Validator.validate_checksums
\* ran, and which answers of the operator were read
copy_from_list(list_exists, op, dry, exit_ok, ans1, checksums_ok, ans2) ==
    LET out(e, v, invoked, checked, asked) ==
            [exc |-> e, val |-> v, invoked |-> invoked, checked |-> checked,
             asked |-> asked]
        perform_copy == teracopy_from_list(list_exists, exit_ok)
        ask1 == ask_user_continue(ans1)
        ask2 == ask_user_continue(ans2)
        asked1 == IF perform_copy.val THEN <<>> ELSE <<ans1>>
    IN IF op = "RSYNC" THEN out("NotImplementedError", FALSE, FALSE, FALSE, <<>>)
       ELSE IF op # "TERACOPY" THEN out("ValueError", FALSE, FALSE, FALSE, <<>>)
       ELSE IF dry_run_check(dry) # "none"
       THEN out(dry_run_check(dry), FALSE, FALSE, FALSE, <<>>)
       ELSE IF perform_copy.exc # "none"
       THEN out(perform_copy.exc, FALSE, FALSE, FALSE, <<>>)
       ELSE IF ~perform_copy.val /\ ask1.exc # "none"
       THEN out(ask1.exc, FALSE, TRUE, FALSE, asked1)
       ELSE IF ~checksums_ok /\ ask2.exc # "none"
       THEN out(ask2.exc, FALSE, TRUE, TRUE, Append(asked1, ans2))
       ELSE out("none", perform_copy.val /\ checksums_ok, TRUE, TRUE,
                IF checksums_ok THEN asked1 ELSE Append(asked1, ans2))

\* Queue.write(destination): the list file of the destination is written,
\* over any list written for it before
write(written, destination) == written \cup {destination}

\* a variant that also leaves the loop after the first destination
copy_loop_finished_after_first(i, q) == i > Len(q) \/ i > 1

\* the copy loop of run has no destination left
copy_loop_finished(i, q) == i > Len(q)

\* one iteration of the copy loop: queue.write, copy_from_list, errors.append
CopyDestination ==
    /\ stage = "copying" /\ result = "none"
    /\ ~copy_loop_finished(k, queue)
    /\ \E exit_ok \in BOOLEAN, checksums_ok \in BOOLEAN,
          ans1 \in Choices, ans2 \in Choices :
        LET dest == queue[k].dest
            r == copy_from_list(TRUE, operation, dry_run, exit_ok, ans1,
                                checksums_ok, ans2)
        IN /\ listWritten' = write(listWritten, dest)
           /\ attempted' = IF r.invoked THEN attempted \cup {dest} ELSE attempted
           /\ failures' = IF (r.invoked /\ ~exit_ok) \/ (r.checked /\ ~checksums_ok)
                          THEN failures \cup {dest} ELSE failures
           /\ declined' = (declined \/ \E j \in 1..Len(r.asked) : r.asked[j] \notin {"y", "Y"})
           /\ IF r.exc # "none"
              THEN /\ result' = "raised"
                   /\ exc' = r.exc
                   /\ UNCHANGED <<k, errors>>
              ELSE /\ errors' = IF r.val THEN errors ELSE errors \cup {dest}
                   /\ k' = k + 1
                   /\ UNCHANGED <<result, exc>>
    /\ UNCHANGED <<stage, dirs, dry_run, operation, files, idx, queue, checksums,
                   logged, bucketCreated, validated, pathVars, copyVars, orgVars, fmtVars>>

CopyLoopEnd ==
    /\ stage = "copying" /\ result = "none"
    /\ copy_loop_finished(k, queue)
    /\ stage' = "reorganizing"
    /\ UNCHANGED <<result, exc, dirs, dry_run, operation, files, idx, queue,
                   checksums, logged, k, listWritten, attempted, failures,
                   errors, declined, bucketCreated, validated, pathVars, copyVars, orgVars, fmtVars>>

(***************************************************************************)
(* Workflow.run: reorganizing                                              *)
(***************************************************************************)
\* the bucket_path property on its first read: the 'Import Bucket' directory
\* is made when it is missing, and must be writable
bucket_path(bucket) ==
    [created |-> ~is_dir(bucket),
     exc |-> IF is_dir(bucket) /\ ~is_writeable(bucket)
             THEN "PermissionError" ELSE "none"]

\* paths of run are sequences of components: the root, the subfolder the
\* SD card gives for the file, and the file name (file i of the walk has
\* the name i)
source_path(fs, i) == <<"sd", fs[i].folder, i>>

\* the path file i is copied to in the bucket: append_parts(photo,
\* [self.bucket_path, folder, filename])
staged_path(fs, i) == <<"bucket", fs[i].folder, i>>

\* os.path.basename
basename(path) == path[Len(path)]

\* the key run computes for a staged file before the final validation:
\* os.path.join(self.sd_card.path, os.path.basename(temp_file))
remap(temp_file) == <<"sd", basename(temp_file)>>

\* results = self.organize_files(self.bucket_path): the argument is evaluated,
\* then the call raises TypeError, organize_files being declared with no
\* parameter but self. Lines 240 to 261 of run are never reached.
Reorganize ==
    /\ stage = "reorganizing" /\ result = "none"
    /\ \E bucket \in {"missing", "ok", "readonly"} :
        LET b == bucket_path(bucket)
        IN /\ bucketCreated' = (bucketCreated \/ b.created)
           /\ exc' = IF b.exc # "none" THEN b.exc ELSE "TypeError"
    /\ result' = "raised"
    /\ UNCHANGED <<stage, dirs, dry_run, operation, files, idx, queue, checksums,
                   logged, k, listWritten, attempted, failures, errors,
                   declined, validated, pathVars, copyVars, orgVars, fmtVars>>

(***************************************************************************)
(* Specification of Workflow.run                                           *)
(***************************************************************************)
Folders == {"100MSDCF", "101MSDCF"}

FileKinds ==
    [type : {"raw"}, folder : Folders, archived : {"absent", "same", "different"}]
    \cup [type : {"jpg", "other"}, folder : Folders, archived : {"absent"}]

FileLists == UNION {[1..n -> FileKinds] : n \in 0..MaxFiles}

RunRawPath == <<"/", "m", "n", "t", "/", "r", "a", "w">>

FmtIdle ==
    /\ fstatus = "idle"
    /\ fexc = "none"
    /\ fwalk = <<>>
    /\ fi = 1
    /\ fresults = <<>>
    /\ ffs = {}
    /\ fcwd = "home"
    /\ fdry = FALSE
    /\ frawexists = TRUE

OrgIdle ==
    /\ ostatus = "idle"
    /\ oexc = "none"
    /\ ofiles = <<>>
    /\ oi = 1
    /\ oresults = <<>>
    /\ oarchive = {}
    /\ omoved = {}
    /\ omade = {}
    /\ odry = FALSE
    /\ oraw = _normalize_path(RunRawPath)
    /\ orawexists = TRUE
    /\ obucket = "ok"
    /\ ocached = FALSE

CopyIdle ==
    /\ cfn = "none"
    /\ cstatus = "idle"
    /\ cret = FALSE
    /\ cexc = "none"
    /\ cexits = <<>>
    /\ cchecked = FALSE
    /\ clist = TRUE
    /\ cdry = FALSE
    /\ cop = "TERACOPY"

PathIdle ==
    /\ gphoto = Photo([type |-> "raw"])
    /\ graw = _normalize_path(RunRawPath)
    /\ gcalls = 0
    /\ gshort = FALSE
    /\ gprops = "None"
    /\ gname = NoResult
    /\ gpath = NoResult

Init ==
    /\ stage = "validating-paths"
    /\ result = "none"
    /\ exc = "none"
    /\ dirs \in [Roots -> {"ok", "readonly", "missing"}]
    /\ dry_run \in BOOLEAN
    /\ operation \in {"TERACOPY", "RSYNC", "OTHER"}
    /\ files \in FileLists
    /\ idx = 1
    /\ queue = <<>>
    /\ checksums = {}
    /\ logged = {}
    /\ k = 0
    /\ listWritten = {}
    /\ attempted = {}
    /\ failures = {}
    /\ errors = {}
    /\ declined = FALSE
    /\ bucketCreated = FALSE
    /\ validated = FALSE
    /\ PathIdle
    /\ CopyIdle
    /\ OrgIdle
    /\ FmtIdle

Next ==
    \/ ValidatePaths
    \/ QueueFile
    \/ QueueReturn
    \/ CopyDestination
    \/ CopyLoopEnd
    \/ Reorganize

Spec == Init /\ [][Next]_vars

(***************************************************************************)
(* Specification of generate_name and generate_path                        *)
(***************************************************************************)
PhotoSet ==
    [number : {<<"1", "2", "3", "4">>}, exposure_bias : {<<"-", "2", " ", "7">>, <<"0", ".", "3">>},
     exposure_value : {<<"1", "0">>}, brightness : {<<"8", ".", "2", "7">>, <<"8">>},
     iso : {<<"8", "0", "0">>}, ss : {<<"2", "5", "0">>},
     lens : {<<"F", "E", " ", "5", "0", "m", "m", " ", "F", "1", ".", "8">>, <<"S", "A", "M", "Y", "A", "N", "G", " ", "A", "F", " ", "1", "2", "m", "m", " ", "F", "2", ".", "0">>}, camera : {<<"a", "7", "r", "4">>, <<"a", "7", ".", "4">>},
     date : {[none |-> TRUE, y |-> <<>>, m |-> <<>>, d |-> <<>>],
             [none |-> FALSE, y |-> <<"2", "0", "2", "3">>, m |-> <<"0", "8">>, d |-> <<"0", "5">>]},
     extension : {<<"a", "r", "w">>, <<"j", "p", "e", "g">>}]

\* archive roots as given to the raw_path setter: '/' followed by n - 1
\* letters, with and without a trailing slash
RawLens == {4, 180, 200, 215, 229, 240}
RawInputs ==
    {<<"/">> \o Rep("r", n - 1) : n \in RawLens}
    \cup {<<"/">> \o Rep("r", n - 1) \o <<"/">> : n \in RawLens}

\* the `properties` arguments, by name
PropertyNames == {"None", "empty", "number", "brightness"}
PropertiesOf(name) ==
    IF name = "None" THEN NoProperties
    ELSE IF name = "empty" THEN Dict(<<>>)
    ELSE IF name = "number" THEN Dict([number |-> <<"5", "6", "7", "8">>])
    ELSE Dict([brightness |-> <<"9", ".", "5">>])

RunIdle ==
    /\ stage = "idle"
    /\ result = "none"
    /\ exc = "none"
    /\ dirs = [r \in Roots |-> "ok"]
    /\ dry_run = FALSE
    /\ operation = "TERACOPY"
    /\ files = <<>>
    /\ idx = 1
    /\ queue = <<>>
    /\ checksums = {}
    /\ logged = {}
    /\ k = 0
    /\ listWritten = {}
    /\ attempted = {}
    /\ failures = {}
    /\ errors = {}
    /\ declined = FALSE
    /\ bucketCreated = FALSE
    /\ validated = FALSE

PathInit ==
    /\ RunIdle
    /\ CopyIdle
    /\ OrgIdle
    /\ FmtIdle
    /\ gphoto \in PhotoSet
    /\ graw \in {_normalize_path(path) : path \in RawInputs}
    /\ gcalls = 0
    /\ gshort = FALSE
    /\ gprops = "None"
    /\ gname = NoResult
    /\ gpath = NoResult

CallGenerateName ==
    /\ stage = "idle" /\ gcalls < MaxCalls
    /\ \E short \in BOOLEAN, name \in PropertyNames :
        /\ gshort' = short
        /\ gprops' = name
        /\ gname' = generate_name(gphoto, short, PropertiesOf(name))
    /\ gcalls' = gcalls + 1
    /\ UNCHANGED <<gphoto, graw, gpath, runVars, copyVars, orgVars, fmtVars>>

CallGeneratePath ==
    /\ stage = "idle" /\ gcalls < MaxCalls
    /\ gpath' = generate_path(gphoto, graw)
    /\ gcalls' = gcalls + 1
    /\ UNCHANGED <<gphoto, graw, gshort, gprops, gname, runVars, copyVars, orgVars, fmtVars>>

PathNext == CallGenerateName \/ CallGeneratePath

SpecPath == PathInit /\ [][PathNext]_vars

(***************************************************************************)
(* Workflow.create_filelist, called on its own: queue_files (the steps of  *)
(* QueueFile, in the stage "listing"), then queue.write for the            *)
(* destination given. No root is validated and nothing is copied.          *)
(***************************************************************************)
\* the destinations create_filelist can be given
ListDestinations == {"bucket", "jpg", "backup"} \X Folders

\* queue = self.queue_files() has returned; queue.write(destination_path,
\* list_path); return. What Queue.write does for a destination for which no
\* file is queued is not in the repository: it writes a list or it raises.
CreateFilelistWrite ==
    /\ stage = "listing" /\ result = "none"
    /\ walk_finished(idx, files)
    /\ \E destination \in ListDestinations, writes \in BOOLEAN :
        IF destination \in Destinations(queue) \/ writes
        THEN /\ listWritten' = write(listWritten, destination)
             /\ result' = "returned"
             /\ exc' = "none"
        ELSE /\ listWritten' = listWritten
             /\ result' = "raised"
             /\ exc' = "KeyError"
    /\ UNCHANGED <<stage, dirs, dry_run, operation, files, idx, queue,
                   checksums, logged, k, attempted, failures, errors, declined,
                   bucketCreated, validated, pathVars, copyVars, orgVars,
                   fmtVars>>

ListInit ==
    /\ stage = "listing"
    /\ result = "none"
    /\ exc = "none"
    /\ dirs \in [Roots -> {"ok", "readonly", "missing"}]
    /\ dry_run \in BOOLEAN
    /\ operation = "TERACOPY"
    /\ files \in FileLists
    \* os.walk finds no file on a card that is not there
    /\ dirs["sd"] = "missing" => files = <<>>
    /\ idx = 1
    /\ queue = <<>>
    /\ checksums = {}
    /\ logged = {}
    /\ k = 0
    /\ listWritten = {}
    /\ attempted = {}
    /\ failures = {}
    /\ errors = {}
    /\ declined = FALSE
    /\ bucketCreated = FALSE
    /\ validated = FALSE
    /\ PathIdle
    /\ CopyIdle
    /\ OrgIdle
    /\ FmtIdle

ListNext == QueueFile \/ CreateFilelistWrite

SpecList == ListInit /\ [][ListNext]_vars

(***************************************************************************)
(* Specification of the copy functions, each called on its own: rsync one  *)
(* step per attempt, the others in one step. The external command is       *)
(* taken to start; what it reports is its exit status.                     *)
(***************************************************************************)
CopyInit ==
    /\ RunIdle
    /\ PathIdle
    /\ OrgIdle
    /\ FmtIdle
    /\ cfn = "none"
    /\ cstatus = "idle"
    /\ cret = FALSE
    /\ cexc = "none"
    /\ cexits = <<>>
    /\ cchecked = FALSE
    /\ clist \in BOOLEAN
    /\ cdry \in BOOLEAN
    /\ cop \in {"TERACOPY", "RSYNC", "OTHER"}

CallRsync ==
    /\ cstatus = "idle"
    /\ cfn' = "rsync"
    /\ cstatus' = "running"
    /\ UNCHANGED <<cret, cexc, cexits, cchecked, clist, cdry, cop, runVars,
                   pathVars, orgVars, fmtVars>>

\* one iteration of the loop of rsync: check_call, then `return True`, or
\* the warning and time.sleep(1) of the except clause
RsyncAttempt ==
    /\ cfn = "rsync" /\ cstatus = "running"
    /\ ~rsync_loop_finished(Len(cexits))
    /\ \E exit_ok \in BOOLEAN :
        /\ cexits' = Append(cexits, exit_ok)
        /\ IF exit_ok
           THEN cstatus' = "returned" /\ cret' = TRUE
           ELSE UNCHANGED <<cstatus, cret>>
    /\ UNCHANGED <<cfn, cexc, cchecked, clist, cdry, cop, runVars, pathVars,
                   orgVars, fmtVars>>

\* the loop of rsync is exhausted: logger.error, `return False`
RsyncGiveUp ==
    /\ cfn = "rsync" /\ cstatus = "running"
    /\ rsync_loop_finished(Len(cexits))
    /\ cstatus' = "returned"
    /\ cret' = FALSE
    /\ UNCHANGED <<cfn, cexc, cexits, cchecked, clist, cdry, cop, runVars,
                   pathVars, orgVars, fmtVars>>

CallTeracopy ==
    /\ cstatus = "idle"
    /\ \E exit_ok \in BOOLEAN :
        LET r == teracopy(exit_ok)
        IN /\ cexits' = IF r.invoked THEN <<exit_ok>> ELSE <<>>
           /\ cstatus' = IF r.exc = "none" THEN "returned" ELSE "raised"
           /\ cexc' = r.exc
           /\ cret' = (r.exc = "none" /\ r.val)
    /\ cfn' = "teracopy"
    /\ UNCHANGED <<cchecked, clist, cdry, cop, runVars, pathVars,
                   orgVars, fmtVars>>

CallTeracopyFromList ==
    /\ cstatus = "idle"
    /\ \E exit_ok \in BOOLEAN :
        LET r == teracopy_from_list(clist, exit_ok)
        IN /\ cexits' = IF r.invoked THEN <<exit_ok>> ELSE <<>>
           /\ cstatus' = IF r.exc = "none" THEN "returned" ELSE "raised"
           /\ cexc' = r.exc
           /\ cret' = (r.exc = "none" /\ r.val)
    /\ cfn' = "teracopy_from_list"
    /\ UNCHANGED <<cchecked, clist, cdry, cop, runVars, pathVars,
                   orgVars, fmtVars>>

CallCopyFromList ==
    /\ cstatus = "idle"
    /\ \E exit_ok \in BOOLEAN, checksums_ok \in BOOLEAN,
          ans1 \in Choices, ans2 \in Choices :
        LET r == copy_from_list(clist, cop, cdry, exit_ok, ans1, checksums_ok,
                                ans2)
        IN /\ cexits' = IF r.invoked THEN <<exit_ok>> ELSE <<>>
           /\ cchecked' = r.checked
           /\ cstatus' = IF r.exc = "none" THEN "returned" ELSE "raised"
           /\ cexc' = r.exc
           /\ cret' = (r.exc = "none" /\ r.val)
    /\ cfn' = "copy_from_list"
    /\ UNCHANGED <<clist, cdry, cop, runVars, pathVars,
                   orgVars, fmtVars>>

CopyNext ==
    \/ CallRsync
    \/ RsyncAttempt
    \/ RsyncGiveUp
    \/ CallTeracopy
    \/ CallTeracopyFromList
    \/ CallCopyFromList

SpecCopy == CopyInit /\ [][CopyNext]_vars

(***************************************************************************)
(* Workflow.organize_files, called on its own: one step for the checks and *)
(* the walk, one per staged file, one for the return.                      *)
(***************************************************************************)
MaxStaged == 2       \* staged files in the bucket

\* range(1, 1000): the first number the disambiguation loop does not try
SuffixEnd == 1000

Digits == <<"0", "1", "2", "3", "4", "5", "6", "7", "8", "9">>

\* str(n) for n >= 0
RECURSIVE str(_)
str(n) ==
    IF n < 10 THEN <<Digits[n + 1]>>
    ELSE str(n \div 10) \o <<Digits[(n % 10) + 1]>>

\* f'{mismatched_file_path} ({i})'
suffixed(path, i) == path \o <<" ", "(">> \o str(i) \o <<")">>

\* the loop over range(1, 1000): the value new_file_path has after it, the
\* first suffixed path that does not exist, or the last one tried
disambiguate(path, existing) ==
    LET free == {i \in 1..(SuffixEnd - 1) : suffixed(path, i) \notin existing}
    IN IF free = {} THEN suffixed(path, SuffixEnd - 1)
       ELSE suffixed(path, CHOOSE i \in free : \A j \in free : i <= j)

\* os.path.dirname
dirname(path) ==
    LET slashes == {i \in 1..Len(path) : path[i] = "/"}
    IN IF slashes = {} THEN <<>>
       ELSE SubSeq(path, 1, (CHOOSE i \in slashes : \A j \in slashes : j <= i) - 1)

\* results[file_path] = value
SetResult(results, i, value) ==
    [j \in DOMAIN results \cup {i} |-> IF j = i THEN value ELSE results[j]]

PathsOf(archive) == {e.path : e \in archive}
ContentAt(archive, path) == (CHOOSE e \in archive : e.path = path).content

\* os.rename(file_path, target) as the archive sees it: the staged file is
\* at target afterwards, in the place of whatever file was there
os_rename(archive, target, content) ==
    {e \in archive : e.path # target}
        \cup {[path |-> target, content |-> content]}

\* the checks of lines 518-522; reading bucket_path makes the bucket (and
\* with it raw_path) when _bucket_path is not set yet, then the walk
OrganizeStart ==
    /\ ostatus = "idle"
    /\ LET b == IF ocached THEN [created |-> FALSE, exc |-> "none"]
                ELSE bucket_path(obucket)
           bucket == IF b.created THEN "ok" ELSE obucket
           rawexists == orawexists \/ b.created
       IN /\ obucket' = bucket
          /\ orawexists' = rawexists
          /\ IF b.exc # "none"
             THEN ostatus' = "raised" /\ oexc' = b.exc
             ELSE IF ~(is_dir(bucket) /\ rawexists)
             THEN ostatus' = "raised" /\ oexc' = "FileNotFoundError"
             ELSE ostatus' = "running" /\ oexc' = "none"
    /\ ocached' = TRUE
    /\ UNCHANGED <<ofiles, oi, oresults, oarchive, omoved, omade, odry, oraw,
                   runVars, pathVars, copyVars, fmtVars>>

\* one iteration of the loop of lines 531-566. mkdir_ok is whether
\* os.makedirs succeeds, choice the answer read by ask_user_continue
OrganizeFile ==
    /\ ostatus = "running"
    /\ oi <= Len(ofiles)
    /\ \E mkdir_ok \in BOOLEAN, choice \in Choices :
        LET file == ofiles[oi]
            generated == generate_path(file.photo, oraw)
            new_file_path == generated.val
            existing == PathsOf(oarchive)
            unique == disambiguate(new_file_path, existing)
            ask == ask_user_continue(choice)
            raise(e) ==
                /\ ostatus' = "raised" /\ oexc' = e
                /\ UNCHANGED <<oi, oresults, oarchive, omoved>>
            continue(value) ==
                /\ oresults' = SetResult(oresults, oi, value)
                /\ oi' = oi + 1
                /\ UNCHANGED <<ostatus, oexc, oarchive, omoved>>
            rename(target) ==
                /\ IF odry
                   THEN UNCHANGED <<oarchive, omoved>>
                   ELSE /\ oarchive' = os_rename(oarchive, target, file.content)
                        /\ omoved' = omoved \cup {oi}
                /\ oresults' = SetResult(oresults, oi,
                                         [none |-> FALSE, path |-> target])
                /\ oi' = oi + 1
                /\ UNCHANGED <<ostatus, oexc>>
        IN IF generated.exc # "none"
           THEN raise(generated.exc) /\ UNCHANGED omade
           ELSE /\ omade' = omade \cup {dirname(new_file_path)}
                /\ IF ~mkdir_ok THEN raise("OSError")
                   ELSE IF new_file_path \notin existing
                   THEN rename(new_file_path)
                   ELSE IF ContentAt(oarchive, new_file_path) = file.content
                   THEN continue([none |-> FALSE, path |-> new_file_path])
                   ELSE IF unique \notin existing THEN rename(unique)
                   ELSE IF ask.exc # "none" THEN raise(ask.exc)
                   ELSE continue([none |-> TRUE, path |-> <<>>])
    /\ UNCHANGED <<ofiles, odry, oraw, orawexists, obucket, ocached, runVars,
                   pathVars, copyVars, fmtVars>>

\* `return results`
OrganizeReturn ==
    /\ ostatus = "running"
    /\ oi > Len(ofiles)
    /\ ostatus' = "returned"
    /\ UNCHANGED <<oexc, ofiles, oi, oresults, oarchive, omoved, omade, odry,
                   oraw, orawexists, obucket, ocached, runVars, pathVars,
                   copyVars, fmtVars>>

\* two photos that differ in their extension only
OrgPhotos ==
    {Photo([type |-> "raw"]), [Photo([type |-> "raw"]) EXCEPT !.extension = <<"j", "p", "e", "g">>]}

StagedLists ==
    UNION {[1..n -> [photo : OrgPhotos, content : {"A", "B"}]] : n \in 0..MaxStaged}

\* archive roots: a short one, and one of 230 characters, which leaves room
\* for a name of one character with the extension arw and none with jpeg
OrgRaws == {_normalize_path(RunRawPath), <<"/">> \o Rep("r", 228) \o <<"/">>}

\* the path of the archive the name of a photo stands for: root, year, date
\* and the full name built from the metadata
ArchivePath(photo, raw) ==
    raw \o <<"/">> \o FormatY(photo.date) \o <<"/">> \o FormatY_m_d(photo.date)
        \o <<"/">> \o generate_name(photo, FALSE, Dict(<<>>)).val

\* what the archive holds at the start: nothing; or, at the path of the arw
\* photo, a file (of content A or B), with B possibly also the path suffixed
\* ' (1)' (of content A or B), or every suffixed path the loop tries
Archives(raw) ==
    LET path == ArchivePath(Photo([type |-> "raw"]), raw)
        at(q, c) == [path |-> q, content |-> c]
    IN {{}, {at(path, "A")}, {at(path, "B")},
        {at(path, "B"), at(suffixed(path, 1), "B")},
        {at(path, "B"), at(suffixed(path, 1), "A")},
        {at(path, "B")} \cup {at(suffixed(path, i), "B") : i \in 1..(SuffixEnd - 1)}}

OrgInit ==
    /\ RunIdle
    /\ PathIdle
    /\ CopyIdle
    /\ FmtIdle
    /\ ostatus = "idle"
    /\ oexc = "none"
    /\ oi = 1
    /\ oresults = <<>>
    /\ omoved = {}
    /\ omade = {}
    /\ odry \in BOOLEAN
    /\ oraw \in OrgRaws
    /\ oarchive \in Archives(oraw)
    /\ orawexists \in BOOLEAN
    /\ obucket \in {"ok", "readonly", "missing"}
    /\ ocached \in BOOLEAN
    /\ ofiles \in StagedLists
    \* the bucket is a directory of raw_path, and an absent bucket holds no file
    /\ ~orawexists => obucket = "missing"
    /\ obucket = "missing" => ofiles = <<>>

OrgNext == OrganizeStart \/ OrganizeFile \/ OrganizeReturn

SpecOrg == OrgInit /\ [][OrgNext]_vars

(***************************************************************************)
(* Workflow.update_format, called on its own: one step for the check, one  *)
(* per file of the walk, one for the return. A path is a record [dir,      *)
(* name]; a relative name is resolved against the working directory.       *)
(***************************************************************************)
MaxLegacy == 2       \* files under raw_path

\* the value of re.IGNORECASE, which line 590 passes to Pattern.match as
\* its second argument, the position at which matching starts
IGNORECASE == 2

IsDigit(c) == \E d \in 1..10 : Digits[d] = c

\* the positions of '-' in a name
Dashes(name) == {i \in 1..Len(name) : name[i] = "-"}

\* old_format_regex from the start of a name, as far as the names of
\* FmtNames tell: eight digits, '-', the camera, '-', the number (group 1),
\* '-', ..., ' EV-', ..., 'B-ISO ', ..., '.arw'
old_format_body(name) ==
    /\ Len(name) > 13
    /\ \A i \in 1..8 : IsDigit(name[i])
    /\ name[9] = "-"
    /\ Cardinality(Dashes(name)) >= 6
    /\ Contains(name, <<" ", "E", "V", "-">>)
    /\ Contains(name, <<"B", "-", "I", "S", "O", " ">>)
    /\ EndsWith(name, <<".", "a", "r", "w">>)

\* matches.group(1): the text between the second and the third '-'
group1(name) ==
    LET after(i) == CHOOSE j \in Dashes(name) :
                        j > i /\ \A h \in Dashes(name) : h > i => j <= h
        second == after(9)
        third == after(second)
    IN SubSeq(name, second + 1, third - 1)

\* old_format_regex.match(filename, pos): the pattern begins with '^',
\* which matches at the real beginning of the string only, so that no
\* match starts at a position other than 0
old_format_regex_match(filename, pos) ==
    IF pos = 0 /\ old_format_body(filename)
    THEN [matched |-> TRUE, group1 |-> group1(filename)]
    ELSE [matched |-> FALSE, group1 |-> <<>>]

\* os.path.join(root, name), and a bare name as the process resolves it
join(root, name) == [dir |-> root, name |-> name]
relative(cwd, name) == [dir |-> cwd, name |-> name]

FsPaths(fs) == {[dir |-> e.dir, name |-> e.name] : e \in fs}

\* the check of lines 581-584
FormatStart ==
    /\ fstatus = "idle"
    /\ IF ~frawexists
       THEN fstatus' = "raised" /\ fexc' = "FileNotFoundError"
       ELSE fstatus' = "running" /\ fexc' = "none"
    /\ UNCHANGED <<fwalk, fi, fresults, ffs, fcwd, fdry, frawexists, runVars,
                   pathVars, copyVars, orgVars>>

\* one file of the walk, lines 588-606
FormatFile ==
    /\ fstatus = "running"
    /\ fi <= Len(fwalk)
    /\ LET file == fwalk[fi]
           matches == old_format_regex_match(file.name, IGNORECASE)
           path == join(file.dir, file.name)
           new_name == generate_name(file.photo, FALSE,
                                     Dict([number |-> matches.group1]))
           recorded == join(file.dir, new_name.val)
           target == relative(fcwd, new_name.val)
       IN IF ~matches.matched
          THEN /\ fi' = fi + 1
               /\ UNCHANGED <<fstatus, fexc, fresults, ffs>>
          ELSE IF new_name.exc # "none"
          THEN /\ fstatus' = "raised" /\ fexc' = new_name.exc
               /\ UNCHANGED <<fi, fresults, ffs>>
          ELSE /\ fresults' = SetResult(fresults, fi, recorded)
               /\ fi' = fi + 1
               /\ UNCHANGED <<fstatus, fexc>>
               /\ IF target \in FsPaths(ffs) \/ fdry
                  THEN UNCHANGED ffs
                  ELSE ffs' = {e \in ffs : join(e.dir, e.name) # path}
                                \cup {[dir |-> target.dir, name |-> target.name,
                                       id |-> fi]}
    /\ UNCHANGED <<fwalk, fcwd, fdry, frawexists, runVars, pathVars, copyVars,
                   orgVars>>

\* `return results`
FormatReturn ==
    /\ fstatus = "running"
    /\ fi > Len(fwalk)
    /\ fstatus' = "returned"
    /\ UNCHANGED <<fexc, fwalk, fi, fresults, ffs, fcwd, fdry, frawexists,
                   runVars, pathVars, copyVars, orgVars>>

\* '20230805-a7r4-1935--7-10 EV-8.27B-ISO 800-FE 50mm.arw', a name of the old
\* format (the example of line 574 with a shorter lens)
LegacyName ==
    <<"2", "0", "2", "3", "0", "8", "0", "5", "-", "a", "7", "r", "4", "-",
      "1", "9", "3", "5", "-", "-", "7", "-", "1", "0", " ", "E", "V", "-",
      "8", ".", "2", "7", "B", "-", "I", "S", "O", " ", "8", "0", "0", "-",
      "F", "E", " ", "5", "0", "m", "m", ".", "a", "r", "w">>

\* the names of the files under raw_path: one of the old format, the name
\* generate_name gives that file, and a file that is no photo
FmtNames ==
    {LegacyName,
     generate_name(Photo([type |-> "raw"]), FALSE,
                   Dict([number |-> <<"1", "9", "3", "5">>])).val,
     <<"n", "o", "t", "e", "s", ".", "t", "x", "t">>}

FmtDirs == {"raw/2023", "raw/2022"}

\* the walks: up to MaxLegacy files of distinct paths
FmtWalks ==
    {w \in UNION {[1..n -> [dir : FmtDirs, name : FmtNames,
                            photo : {Photo([type |-> "raw"])}]]
                  : n \in 0..MaxLegacy} :
        \A i, j \in 1..Len(w) :
            i # j => join(w[i].dir, w[i].name) # join(w[j].dir, w[j].name)}

FmtInit ==
    /\ RunIdle
    /\ PathIdle
    /\ CopyIdle
    /\ OrgIdle
    /\ fstatus = "idle"
    /\ fexc = "none"
    /\ fi = 1
    /\ fresults = <<>>
    /\ fwalk \in FmtWalks
    /\ fcwd \in {"home"} \cup FmtDirs
    /\ fdry \in BOOLEAN
    /\ frawexists \in BOOLEAN
    /\ ~frawexists => fwalk = <<>>
    /\ ffs = {[dir |-> fwalk[j].dir, name |-> fwalk[j].name, id |-> j]
                 : j \in 1..Len(fwalk)}

FmtNext == FormatStart \/ FormatFile \/ FormatReturn

SpecFmt == FmtInit /\ [][FmtNext]_vars

(***************************************************************************)
(* Properties of Workflow.run                                              *)
(***************************************************************************)
AllDests == Destinations(queue)

\* every root exists, and the raw, jpeg and backup roots are writable
PathsOK ==
    /\ dirs["sd"] # "missing" /\ dirs["raw"] # "missing"
    /\ dirs["jpg"] # "missing" /\ dirs["backup"] # "missing"
    /\ dirs["raw"] = "ok" /\ dirs["jpg"] = "ok" /\ dirs["backup"] = "ok"

NoSideEffects ==
    /\ queue = <<>> /\ idx = 1 /\ checksums = {} /\ logged = {}
    /\ listWritten = {} /\ attempted = {}
    /\ ~bucketCreated /\ ~validated

\* queue_files has ended, by returning its queue or by raising
QueueEnded ==
    \/ stage \in {"copying", "reorganizing"}
    \/ (stage = "queuing" /\ result # "none")

\* C1: a run that got past queue construction with at least one destination
\* queued returns True when no stage recorded an error and returns False when
\* one did (paths invalid, or a copy or checksum validation failed).
C1_RunResult ==
    (result # "none" /\ stage \in {"validating-paths", "reorganizing"}
        /\ (stage = "reorganizing" => queue # <<>>))
    => IF ~PathsOK \/ failures # {} THEN result = "failed" ELSE result = "done"

\* C2: a failed copy or checksum validation, the operator continuing, does not
\* stop the copy loop: while it runs the destinations before the current one
\* have all been attempted and `errors` holds exactly the failed ones, only a
\* declined prompt ends it with KeyboardInterrupt, when the stage is over
\* every destination had its list written and its copy attempted, and a run
\* that ended after a stage with a recorded failure returned False.
C2_AllDestinationsAttempted ==
    /\ (stage = "copying" /\ result = "none")
        => /\ attempted = {queue[j].dest : j \in 1..(k - 1)}
           /\ errors = failures
    /\ (stage = "copying" /\ exc = "KeyboardInterrupt") => declined
    /\ stage = "reorganizing"
        => /\ listWritten = AllDests
           /\ attempted = AllDests
           /\ errors = failures
    /\ (stage = "reorganizing" /\ result # "none" /\ errors # {})
        => result = "failed"

\* C3: the stages follow one another in the order validating-paths, queuing,
\* copying, reorganizing; the queue does not change once queuing is left, no
\* list is written and no copy made before the walk over the card is over,
\* and reorganizing is entered only when every destination was attempted.
C3_StageOrder ==
    /\ [](listWritten # {} \/ attempted # {}
            => stage \in {"copying", "reorganizing"} /\ idx > Len(files))
    /\ [](stage = "reorganizing" \/ bucketCreated => attempted = AllDests)
    /\ [][stage' # stage =>
            <<stage, stage'>> \in {<<"validating-paths", "queuing">>,
                                   <<"queuing", "copying">>,
                                   <<"copying", "reorganizing">>}]_vars
    /\ [][stage \notin {"validating-paths", "queuing"} => queue' = queue]_vars

\* C3 witness: reorganizing is reached after two destinations, one of which
\* failed
C3_Witness ==
    /\ stage = "reorganizing" /\ Len(queue) >= 2
    /\ failures # {} /\ attempted = AllDests

\* C4: when the reorganizing stage fails, run returns False and the final
\* checksum validation has not been performed.
C4_ReorganizeFailureReturnsFalse ==
    (stage = "reorganizing" /\ result # "none")
    => (result = "failed" /\ ~validated)

\* C5: with a missing root, or a raw, jpeg or backup root that is not
\* writable, run never leaves validating-paths, ends there by returning False
\* and has had no effect; with all roots present and the three archive roots
\* writable (the source may be read-only) it does not fail in that stage.
C5_InvalidPathsHalt ==
    /\ [](~PathsOK => /\ stage = "validating-paths"
                      /\ result \in {"none", "failed"}
                      /\ exc = "none"
                      /\ NoSideEffects)
    /\ [](PathsOK => ~(stage = "validating-paths" /\ result # "none"))
    /\ [][(stage = "validating-paths" /\ result = "none" /\ ~PathsOK)
            => result' = "failed"]_vars

\* C5 witness: run returned False because the jpeg root is read-only, on a
\* card that holds files
C5_Witness ==
    /\ result = "failed" /\ stage = "validating-paths"
    /\ dirs["jpg"] = "readonly" /\ dirs["raw"] = "ok" /\ dirs["backup"] = "ok"
    /\ dirs["sd"] = "ok" /\ files # <<>>

\* C6: once the operator declined to continue after a failed copy or checksum
\* validation, the run is over without success (ask_user_continue raised
\* KeyboardInterrupt out of run): the destinations after the current one are
\* not copied, the staging bucket is not touched, the final validation is not
\* made, and nothing changes any more.
C6_DeclineIsFatal ==
    /\ [](declined => /\ result = "raised" /\ exc = "KeyboardInterrupt"
                      /\ stage = "copying"
                      /\ attempted = {queue[j].dest : j \in 1..k}
                      /\ errors \subseteq {queue[j].dest : j \in 1..(k - 1)}
                      /\ ~bucketCreated /\ ~validated)
    /\ [][declined => UNCHANGED vars]_vars

\* C6 witness: the operator declined at the first of several destinations
C6_Witness ==
    /\ declined /\ k = 1 /\ Len(queue) >= 2
    /\ queue[1].dest \in failures /\ queue[2].dest \notin attempted

\* C7: once queue_files has ended, every file of the card is listed exactly
\* once for the backup destination, or is of unknown type, was logged and is
\* listed nowhere.
C7_BackupOnceOrUnknown ==
    QueueEnded =>
        \A i \in 1..Len(files) :
            \/ Queued(queue, "backup", i) = 1
            \/ /\ files[i].type = "other" /\ i \in logged
               /\ \A root \in {"bucket", "jpg", "backup"} : Queued(queue, root, i) = 0

\* C8: once queue_files has ended, a raw file whose canonical path holds the
\* same content is not listed for the staging bucket, and a raw file whose
\* canonical path is free or holds other content is listed for it.
C8_StagingQueue ==
    QueueEnded =>
        \A i \in 1..Len(files) :
            files[i].type = "raw" =>
                IF files[i].archived = "same"
                THEN Queued(queue, "bucket", i) = 0
                ELSE Queued(queue, "bucket", i) >= 1

\* C9: once queue_files has ended, every raw file is listed at least once for
\* the staging bucket, every jpeg at least once for the jpeg archive, and each
\* of them exactly once for the backup destination.
C9_RecognizedQueued ==
    QueueEnded =>
        \A i \in 1..Len(files) :
            /\ files[i].type = "raw" => Queued(queue, "bucket", i) >= 1
            /\ files[i].type = "jpg" => Queued(queue, "jpg", i) >= 1
            /\ files[i].type \in {"raw", "jpg"} => Queued(queue, "backup", i) = 1

(***************************************************************************)
(* Properties of generate_path                                             *)
(***************************************************************************)
\* C10: a path returned by generate_path is at most 254 characters long.
C10_PathWithinLimit ==
    gpath.exc = "none" => Len(gpath.val) <= 254

(***************************************************************************)
(* Properties of generate_name and generate_path (continued)               *)
(***************************************************************************)
\* the room generate_path has for the name: limit, less the root, the
\* extension and the fixed overhead of 20
Budget == 254 - Len(graw) - Len(gphoto.extension) - 20

\* C11: generate_path fails with the path-too-long error (ValueError) exactly
\* when the budget is not positive; otherwise it returns a path whose name is
\* the full name if that fits the budget, else the short name if that fits,
\* else the short name cut to the budget, the marker '---.' and the extension.
C11_NamePreference ==
    gpath.exc # "not called" =>
        LET full == generate_name(gphoto, FALSE, Dict(<<>>)).val
            short == generate_name(gphoto, TRUE, Dict(<<>>)).val
            name == IF Len(full) <= Budget THEN full
                    ELSE IF Len(short) <= Budget THEN short
                    ELSE SubSeq(short, 1, Budget) \o <<"-", "-", "-", ".">>
                         \o gphoto.extension
        IN IF Budget <= 0
           THEN gpath.exc = "ValueError"
           ELSE gpath.exc = "none" /\ EndsWith(gpath.val, <<"/">> \o name)

\* C12: a name returned by generate_name holds exactly one '.', the one that
\* separates the extension: none comes before it.
C12_NoDotBeforeExtension ==
    gname.exc = "none" =>
        {i \in 1..Len(gname.val) : gname.val[i] = "."}
            = {Len(gname.val) - Len(gphoto.extension)}

\* C12 witness: a full name was returned for a photo whose exposure bias,
\* brightness, camera and lens all hold a '.'
C12_Witness ==
    /\ gname.exc = "none" /\ ~gshort /\ gprops = "number"
    /\ Contains(gphoto.exposure_bias, <<".">>)
    /\ Contains(gphoto.brightness, <<".">>)
    /\ Contains(gphoto.camera, <<".">>)
    /\ Contains(gphoto.lens, <<".">>)

\* C13: a short name returned by generate_name holds neither the ISO field
\* nor the shutter-speed field (nor the date, at its head): after the sequence
\* number come only the exposure bias, exposure value and brightness fields.
C13_ShortOmitsIsoAndShutter ==
    (gname.exc = "none" /\ gshort) =>
        /\ ~Contains(gname.val, gphoto.iso \o <<"I", "S", "O">>)
        /\ ~Contains(gname.val, gphoto.ss \o <<"S", "S">>)
        /\ EndsWith(gname.val, <<"B", ".">> \o gphoto.extension)

(***************************************************************************)
(* Properties of the copy functions                                        *)
(***************************************************************************)
\* the call has ended, by a return or by an exception
CopyEnded == cstatus \in {"returned", "raised"}

\* every invocation of the external command exited with a nonzero status
AllExitsFailed == \A i \in 1..Len(cexits) : ~cexits[i]

\* C15: a call of rsync never raises; one that ends after nonzero exits only
\* has invoked the command exactly MAX_RETRIES times and returns False; once
\* an invocation exits with 0 the call returns True at once, that invocation
\* being the last (and no call invokes the command more than MAX_RETRIES
\* times).
C15_RsyncRetries ==
    cfn = "rsync" =>
        /\ cstatus # "raised"
        /\ Len(cexits) <= MAX_RETRIES
        /\ \A i \in 1..Len(cexits) : cexits[i] =>
               /\ i = Len(cexits)
               /\ cstatus = "returned" /\ cret
        /\ (CopyEnded /\ AllExitsFailed) =>
               /\ Len(cexits) = MAX_RETRIES
               /\ cstatus = "returned" /\ ~cret

\* C15 witness: rsync returned False after MAX_RETRIES failed attempts
C15_Witness ==
    /\ cfn = "rsync" /\ cstatus = "returned" /\ ~cret
    /\ Len(cexits) = MAX_RETRIES /\ MAX_RETRIES > 1

\* C16 as stated: a call of teracopy, of teracopy_from_list or of
\* copy_from_list whose external copy fails has invoked the command
\* MAX_RETRIES times when it ends.
C16_TeracopyRetries ==
    (cfn \in {"teracopy", "teracopy_from_list", "copy_from_list"}
        /\ CopyEnded /\ cexits # <<>> /\ AllExitsFailed) =>
        Len(cexits) = MAX_RETRIES

\* C17: teracopy_from_list called with a list file that does not exist
\* raises FileNotFoundError and the external command is never invoked; the
\* same holds when copy_from_list reaches it.
C17_MissingListFailsFast ==
    /\ (cfn = "teracopy_from_list" /\ ~clist) =>
           cstatus = "raised" /\ cexc = "FileNotFoundError" /\ cexits = <<>>
    /\ (cfn = "copy_from_list" /\ ~clist /\ ~cdry /\ cop = "TERACOPY") =>
           cstatus = "raised" /\ cexc = "FileNotFoundError" /\ cexits = <<>>

\* C17 witness: teracopy_from_list was called without its list file
C17_Witness ==
    cfn = "teracopy_from_list" /\ ~clist /\ cstatus = "raised"

\* C18: in dry-run mode copy_from_list raises, with NotImplementedError
\* when the operation is one it knows, and neither the external copy nor the
\* checksum validation has run; it never returns.
C18_DryRunUnsupported ==
    (cfn = "copy_from_list" /\ cdry) =>
        /\ cstatus = "raised"
        /\ cop \in {"TERACOPY", "RSYNC"} => cexc = "NotImplementedError"
        /\ cexits = <<>>
        /\ ~cchecked

\* C18 witness: a dry-run copy_from_list with the teracopy operation and an
\* existing list file ended
C18_Witness ==
    cfn = "copy_from_list" /\ cdry /\ cop = "TERACOPY" /\ clist /\ CopyEnded

(***************************************************************************)
(* Properties of Workflow.organize_files                                   *)
(***************************************************************************)
\* the call has ended, by a return or by an exception
OrgEnded == ostatus \in {"returned", "raised"}

\* the call ended in its checks, before the first staged file
OrgStartFailed == oexc \in {"PermissionError", "FileNotFoundError"}

\* C14: when the call has ended (the directories made, the operator not
\* asked) and the canonical path of the first staged file, within the path
\* limit, was occupied by another file (that path suffixed ' (2)' not being
\* in use): with identical content the file is not moved, no
\* suffixed duplicate is made and the result maps it to the canonical path;
\* with different content (and no dry run) the archive keeps the old file at
\* the canonical path, the staged file is moved to that path suffixed ' (1)'
\* and the result maps it there.
C14_OccupiedCanonical ==
    (/\ OrgEnded /\ ~OrgStartFailed
     /\ oexc \notin {"OSError", "KeyboardInterrupt"}
     /\ Len(ofiles) >= 1
     /\ ArchivePath(ofiles[1].photo, oraw) \in PathsOf(oarchive)
     /\ ~(1 \in omoved /\ 1 \in DOMAIN oresults
           /\ oresults[1].path = ArchivePath(ofiles[1].photo, oraw))
     /\ Len(ArchivePath(ofiles[1].photo, oraw)) <= PathLimit
     /\ suffixed(ArchivePath(ofiles[1].photo, oraw), 2) \notin PathsOf(oarchive)) =>
        LET canonical == ArchivePath(ofiles[1].photo, oraw)
            first == suffixed(canonical, 1)
            was == ContentAt(oarchive, canonical)
        IN /\ 1 \in DOMAIN oresults
           /\ was = ofiles[1].content =>
                  /\ 1 \notin omoved
                  /\ oresults[1] = [none |-> FALSE, path |-> canonical]
           /\ (was # ofiles[1].content /\ ~odry) =>
                  /\ 1 \in omoved
                  /\ [path |-> first, content |-> ofiles[1].content] \in oarchive
                  /\ oresults[1] = [none |-> FALSE, path |-> first]

\* C19: a call that got past its checks (the directories made) returns, and
\* its result has an entry for every staged file: the path the file has in
\* the archive, or None for a file whose path is too long or whose name
\* collision is not resolved, which is not moved.
C19_PerFileErrorsRecorded ==
    (OrgEnded /\ ~OrgStartFailed /\ oexc # "OSError") =>
        /\ ostatus = "returned"
        /\ DOMAIN oresults = 1..Len(ofiles)
        /\ \A j \in 1..Len(ofiles) :
               (254 - Len(oraw) - Len(ofiles[j].photo.extension) - 20 < 1) =>
                   oresults[j].none /\ j \notin omoved

\* C20: a call that got past its checks (the operator not declining) returns
\* its mapping even when os.makedirs failed for a staged file, and the
\* mapping has the files moved to the archive.
C20_MakedirsFailureNotFatal ==
    (OrgEnded /\ ~OrgStartFailed /\ oexc # "KeyboardInterrupt") =>
        /\ ostatus = "returned"
        /\ omoved \subseteq DOMAIN oresults

(***************************************************************************)
(* Properties of generate_name (overrides)                                 *)
(***************************************************************************)
\* the metadata record with each overridden field replaced by its override
Overridden(photo, properties) ==
    IF properties.none THEN photo
    ELSE [f \in DOMAIN photo |->
             IF f \in DOMAIN properties.items THEN properties.items[f]
             ELSE photo[f]]

\* C24: every call of generate_name returns, and the name it returns is the
\* name of the metadata record in which each overridden field has the
\* override's value; with no overrides (properties None or empty) it is the
\* name of the metadata record itself.
C24_OverridesOrMetadata ==
    gname.exc # "not called" =>
        /\ gname.exc = "none"
        /\ gname.val = generate_name(Overridden(gphoto, PropertiesOf(gprops)),
                                     gshort, Dict(<<>>)).val
        /\ gprops \in {"None", "empty"} =>
               gname.val = generate_name(gphoto, gshort, Dict(<<>>)).val

(***************************************************************************)
(* Properties of Workflow.run (continued)                                  *)
(***************************************************************************)
\* C23: once queue_files has ended, every file of the card, whatever its
\* type, is listed exactly once for the backup destination.
C23_BackupListsEveryFile ==
    QueueEnded => \A i \in 1..Len(files) : Queued(queue, "backup", i) = 1

\* C25: a run that has ended in or after reorganizing (the bucket writable)
\* has called the final validation, and the key it computes for every staged
\* file is the source path of that file, under which its checksum was
\* recorded.
C25_RemapToSource ==
    (stage = "reorganizing" /\ result # "none" /\ exc # "PermissionError") =>
        /\ validated
        /\ \A i \in 1..Len(files) :
               Queued(queue, "bucket", i) >= 1 =>
                   remap(staged_path(files, i)) = source_path(files, i)

\* C26: a run with valid roots and a writable bucket, the teracopy operation
\* and no dry run, in which no copy or validation failed and every raw file
\* of the card is archived already with the same content, returns True when
\* it ends.
C26_RerunReturnsTrue ==
    (/\ result # "none" /\ PathsOK /\ exc # "PermissionError"
     /\ operation = "TERACOPY" /\ ~dry_run /\ failures = {}
     /\ \A i \in 1..Len(files) :
            files[i].type = "raw" => files[i].archived = "same") =>
        result = "done"

(***************************************************************************)
(* Properties of Workflow.organize_files (continued)                       *)
(***************************************************************************)
\* the canonical path of the first staged file
Canonical1 == ArchivePath(ofiles[1].photo, oraw)

\* the call got past its checks, every directory was made and the operator,
\* if asked, answered y
OrgUndisturbed ==
    /\ OrgEnded /\ ~OrgStartFailed
    /\ oexc \notin {"OSError", "KeyboardInterrupt"}
    /\ Len(ofiles) >= 1

\* the canonical path of the first staged file, within the path limit, held
\* a file of another content when the file's turn came
Conflict1 ==
    /\ Len(Canonical1) <= PathLimit
    /\ Canonical1 \in PathsOf(oarchive)
    /\ ContentAt(oarchive, Canonical1) # ofiles[1].content

\* path with ' (i)' put before its extension ext
inserted(path, ext, i) ==
    SubSeq(path, 1, Len(path) - Len(ext) - 1) \o <<" ", "(">> \o str(i)
        \o <<")", ".">> \o ext

\* C21: when the canonical path of the first staged file holds another
\* content and every suffixed candidate is in use, an undisturbed call
\* returns with a result for every staged file, the first one mapped to
\* None and not moved, the file at the canonical path being as it was.
C21_UnresolvedIsNone ==
    (/\ OrgUndisturbed /\ Conflict1
     /\ \A i \in 1..(SuffixEnd - 1) : suffixed(Canonical1, i) \in PathsOf(oarchive)) =>
        /\ ostatus = "returned"
        /\ DOMAIN oresults = 1..Len(ofiles)
        /\ oresults[1].none
        /\ 1 \notin omoved

\* C22: when the canonical path of the first staged file holds another
\* content, an undisturbed call that is no dry run has moved the file to the
\* canonical name with ' (i)' put before the extension, i being the smallest
\* number from 1 on whose path was not in use, or has mapped it to None.
C22_DisambiguatorBeforeExtension ==
    (OrgUndisturbed /\ Conflict1 /\ ~odry) =>
        /\ 1 \in DOMAIN oresults
        /\ \/ oresults[1].none
           \/ \E i \in 1..(SuffixEnd - 1) :
                /\ oresults[1].path
                       = inserted(Canonical1, ofiles[1].photo.extension, i)
                /\ 1 \in omoved
                /\ \A j \in 1..(i - 1) :
                       inserted(Canonical1, ofiles[1].photo.extension, j)
                           \in PathsOf(oarchive)

\* the canonical path of the single staged file holds another content and
\* the path suffixed ' (1)' holds the file's own content
ArchivedSuffixed1 ==
    /\ Len(ofiles) = 1 /\ Conflict1
    /\ [path |-> suffixed(Canonical1, 1), content |-> ofiles[1].content]
            \in oarchive

\* C28: when the canonical path of the single staged file holds another
\* content and the path suffixed ' (1)' holds the file's own content, no
\* step of organize_files adds a file to the archive or moves the staged
\* file.
C28_NoFurtherCopy ==
    [][ArchivedSuffixed1 => (oarchive' = oarchive /\ omoved' = omoved)]_vars

\* C28 witness: the call has ended, no dry run, the staged content being
\* archived under ' (1)', and the archive holds the two files it held
C28_Witness ==
    /\ OrgEnded /\ ~OrgStartFailed /\ ~odry
    /\ ArchivedSuffixed1
    /\ Cardinality(oarchive) = 2 /\ omoved = {}

\* C29: a dry run moves no staged file and makes no directory, the bucket
\* included, and when no check or prompt ended it, it returns a mapping that
\* has a path for every staged file.
C29_DryRunChangesNothing ==
    /\ [](odry => omoved = {} /\ omade = {})
    /\ []((odry /\ OrgEnded /\ ~OrgStartFailed /\ oexc # "KeyboardInterrupt") =>
            /\ ostatus = "returned"
            /\ DOMAIN oresults = 1..Len(ofiles))
    /\ [][odry => obucket' = obucket]_vars

(***************************************************************************)
(* Properties of Workflow.update_format                                    *)
(***************************************************************************)
\* C30: when update_format has returned from a run that is no dry run,
\* every file of the old format has a path recorded in the mapping, in its
\* own directory: the file is at that path, or it is where it was, another
\* file being at that path.
C30_RenamedInPlace ==
    (fstatus = "returned" /\ ~fdry) =>
        \A j \in 1..Len(fwalk) :
            old_format_body(fwalk[j].name) =>
                /\ j \in DOMAIN fresults
                /\ fresults[j].dir = fwalk[j].dir
                /\ \/ [dir |-> fresults[j].dir, name |-> fresults[j].name,
                       id |-> j] \in ffs
                   \/ /\ [dir |-> fwalk[j].dir, name |-> fwalk[j].name,
                          id |-> j] \in ffs
                      /\ \E e \in ffs :
                            e.id # j /\ join(e.dir, e.name) = fresults[j]

====
